---- MODULE Spec2Model ----
(***************************************************************************)
(* Model of src/src/stock_mcp/server.py: the normalizer                    *)
(* (convert_to_json_serializable, format_response) and the range           *)
(* resolution of get_historical_prices.                                    *)
(*                                                                         *)
(* Python values are tagged records.  A call that raises is the record     *)
(* Raise(exc, msg); a call that returns a string returns Str(s).           *)
(***************************************************************************)
EXTENDS Integers, Sequences, FiniteSets, TLC

VARIABLES
    tool,       \* the handler that ran and has yet to respond ("none": idle)
    args,       \* the arguments of that call
    json_data,  \* what convert_to_json_serializable gave inside that call
    params,     \* the request get_historical_prices passed to tickers.history
    reads,      \* the values the calls of datetime.today() returned in that call
    result,     \* what the call returned, or the exception it raised
    clock,      \* the current date, as a day number (days since 1970-01-01)
    calls       \* the locals of the calls in flight when calls are interleaved

vars == <<tool, args, json_data, params, reads, result, clock, calls>>

----------------------------------------------------------------------------
(* Python values *)

None == [tag |-> "None"]
NaN == [tag |-> "NaN"]
PyInt(n) == [tag |-> "int", n |-> n]
Str(s) == [tag |-> "str", s |-> s]
Bool(b) == [tag |-> "bool", b |-> b]
Timestamp(iso) == [tag |-> "Timestamp", iso |-> iso]
Tuple(items) == [tag |-> "tuple", items |-> items]
List(items) == [tag |-> "list", items |-> items]
Dict(keys, vals) == [tag |-> "dict", keys |-> keys, vals |-> vals]
NdArray(items) == [tag |-> "ndarray", items |-> items]
Series(index, values) == [tag |-> "Series", index |-> index, values |-> values]
DataFrame(kind, names, index, columns, data) ==
    [tag |-> "DataFrame", kind |-> kind, names |-> names, index |-> index,
     columns |-> columns, data |-> data]
Raise(exc, msg) == [tag |-> "raise", exc |-> exc, msg |-> msg]

IsRaise(v) == v.tag = "raise"

Range(seq) == {seq[i] : i \in DOMAIN seq}

Min(S) == CHOOSE m \in S : \A n \in S : m <= n

\* bool(x) of a scalar: None, "", 0 and False are falsy
Truthy(v) ==
    CASE v.tag = "None" -> FALSE
      [] v.tag = "str" -> v.s /= ""
      [] v.tag = "int" -> v.n /= 0
      [] v.tag = "bool" -> v.b
      [] OTHER -> TRUE

----------------------------------------------------------------------------
(* pandas *)

\* DataFrame.index.name: a MultiIndex keeps its names per level and has no name
index_name(df) == IF df.kind = "MultiIndex" THEN None ELSE df.names[1]

\* the column names DataFrame.reset_index gives the index levels
reset_index_names(df) ==
    IF df.kind = "MultiIndex"
    THEN [i \in DOMAIN df.names |->
            IF df.names[i] = None THEN Str("level_" \o ToString(i - 1))
            ELSE df.names[i]]
    ELSE LET default == IF Str("index") \notin Range(df.columns)
                        THEN Str("index") ELSE Str("level_0")
         IN  <<IF df.names[1] = None THEN default ELSE df.names[1]>>

\* DataFrame.insert(0, name, ...) for the levels i, i-1, ..., 1 in turn
RECURSIVE insert_levels(_, _, _)
insert_levels(columns, names, i) ==
    IF i = 0 THEN List(columns)
    ELSE IF names[i] \in Range(columns)
         THEN Raise("ValueError",
                    "cannot insert " \o names[i].s \o ", already exists")
         ELSE insert_levels(<<names[i]>> \o columns, names, i - 1)

reset_index(df) ==
    LET cols == insert_levels(df.columns, reset_index_names(df),
                              Len(df.names))
    IN  IF IsRaise(cols) THEN cols
        ELSE DataFrame("RangeIndex", <<None>>,
                       [r \in DOMAIN df.data |-> <<PyInt(r - 1)>>],
                       cols.items,
                       [r \in DOMAIN df.data |-> df.index[r] \o df.data[r]])

\* DataFrame.to_dict(orient='records'): one dict per row, cells unchanged
to_dict_records(df) ==
    List([r \in DOMAIN df.data |-> Dict(df.columns, df.data[r])])

\* dict(zip(keys, vals)): a repeated key keeps its first place and last value
RECURSIVE dict_from_items(_, _)
dict_from_items(keys, vals) ==
    IF keys = <<>> THEN Dict(<<>>, <<>>)
    ELSE LET n == Len(keys)
             d == dict_from_items(SubSeq(keys, 1, n - 1), SubSeq(vals, 1, n - 1))
         IN  IF keys[n] \in Range(d.keys)
             THEN Dict(d.keys,
                       [i \in DOMAIN d.keys |->
                          IF d.keys[i] = keys[n] THEN vals[n] ELSE d.vals[i]])
             ELSE Dict(Append(d.keys, keys[n]), Append(d.vals, vals[n]))

\* Series.to_dict()
series_to_dict(s) == dict_from_items(s.index, s.values)

\* the truth value of pd.isna(data) as the elif of line 35 takes it
pd_isna(data) ==
    CASE data.tag \in {"NaN", "None"} -> Bool(TRUE)
      [] data.tag = "ndarray" ->
            IF Len(data.items) > 1
            THEN Raise("ValueError",
                       "The truth value of an array with more than one element is ambiguous. Use a.any() or a.all()")
            ELSE Bool(Len(data.items) = 1 /\ data.items[1].tag \in {"NaN", "None"})
      [] OTHER -> Bool(FALSE)

----------------------------------------------------------------------------
(* convert_to_json_serializable *)

\* mutant of first_raise: the items come out in reverse order
first_raise_reversed(items) ==
    LET raising == {i \in DOMAIN items : IsRaise(items[i])}
    IN  IF raising = {} THEN List([i \in DOMAIN items |-> items[Len(items) + 1 - i]])
        ELSE items[Min(raising)]

\* the first exception a comprehension over items meets, else the items
first_raise(items) ==
    LET raising == {i \in DOMAIN items : IsRaise(items[i])}
    IN  IF raising = {} THEN List(items) ELSE items[Min(raising)]

\* mutant of index_is_meaningful: "and" written for "or"
index_is_meaningful_and(df) ==
    Truthy(index_name(df)) /\ df.kind /= "RangeIndex"

\* mutant of index_is_meaningful: the index is always made a column
index_is_meaningful_always(df) == df.tag = "DataFrame"

\* line 26: data.index.name or not isinstance(data.index, pd.RangeIndex)
index_is_meaningful(df) ==
    Truthy(index_name(df)) \/ df.kind /= "RangeIndex"

\* lines 24-28
convert_dataframe(data) ==
    LET df == IF index_is_meaningful(data) THEN reset_index(data) ELSE data
    IN  IF IsRaise(df) THEN df ELSE to_dict_records(df)

RECURSIVE convert_to_json_serializable(_)
convert_to_json_serializable(data) ==
    CASE data.tag = "DataFrame" -> convert_dataframe(data)
      [] data.tag = "Series" -> series_to_dict(data)
      [] data.tag = "dict" ->
            LET vs == first_raise([i \in DOMAIN data.vals |->
                                     convert_to_json_serializable(data.vals[i])])
            IN  IF IsRaise(vs) THEN vs ELSE Dict(data.keys, vs.items)
      [] data.tag \in {"list", "tuple"} ->
            first_raise([i \in DOMAIN data.items |->
                           convert_to_json_serializable(data.items[i])])
      [] OTHER ->
            LET na == pd_isna(data)
            IN  IF IsRaise(na) THEN na
                ELSE IF na.b THEN None ELSE data

----------------------------------------------------------------------------
(* json.dumps(obj, indent=2, default=str) *)

RECURSIVE Spaces(_)
Spaces(n) == IF n = 0 THEN "" ELSE " " \o Spaces(n - 1)

Indent == 2

Quote(s) == "\"" \o s \o "\""

\* str(obj), the default= hook of json.dumps
py_str(o) ==
    CASE o.tag = "Timestamp" -> o.iso
      [] o.tag = "str" -> o.s
      [] o.tag = "int" -> ToString(o.n)
      [] o.tag = "bool" -> IF o.b THEN "True" ELSE "False"
      [] o.tag = "NaN" -> "nan"
      [] o.tag = "None" -> "None"
      [] OTHER -> "<" \o o.tag \o ">"

\* a dict key as the encoder writes it
json_key(k) ==
    CASE k.tag = "str" -> Str(Quote(k.s))
      [] k.tag = "int" -> Str(Quote(ToString(k.n)))
      [] k.tag = "bool" -> Str(Quote(IF k.b THEN "true" ELSE "false"))
      [] k.tag = "None" -> Str(Quote("null"))
      [] k.tag = "NaN" -> Str(Quote("NaN"))
      [] OTHER -> Raise("TypeError",
                        "keys must be str, int, float, bool or None, not " \o k.tag)

\* chunks joined by ",\n" and the indentation of the level
RECURSIVE join_chunks(_, _)
join_chunks(chunks, level) ==
    IF Len(chunks) = 1 THEN Spaces(Indent * level) \o chunks[1]
    ELSE join_chunks(SubSeq(chunks, 1, Len(chunks) - 1), level) \o ",\n"
         \o Spaces(Indent * level) \o chunks[Len(chunks)]

RECURSIVE json_encode(_, _)
json_encode(o, level) ==
    CASE o.tag = "str" -> Str(Quote(o.s))
      [] o.tag = "None" -> Str("null")
      [] o.tag = "bool" -> Str(IF o.b THEN "true" ELSE "false")
      [] o.tag = "int" -> Str(ToString(o.n))
      [] o.tag = "NaN" -> Str("NaN")
      [] o.tag \in {"list", "tuple"} ->
            IF o.items = <<>> THEN Str("[]")
            ELSE LET chunks == first_raise([i \in DOMAIN o.items |->
                                              json_encode(o.items[i], level + 1)])
                 IN  IF IsRaise(chunks) THEN chunks
                     ELSE Str("[\n"
                              \o join_chunks([i \in DOMAIN chunks.items |->
                                                chunks.items[i].s], level + 1)
                              \o "\n" \o Spaces(Indent * level) \o "]")
      [] o.tag = "dict" ->
            IF o.keys = <<>> THEN Str("{}")
            ELSE LET chunks == first_raise([i \in 1..(2 * Len(o.keys)) |->
                                   IF i % 2 = 1 THEN json_key(o.keys[(i + 1) \div 2])
                                   ELSE json_encode(o.vals[i \div 2], level + 1)])
                 IN  IF IsRaise(chunks) THEN chunks
                     ELSE Str("{\n"
                              \o join_chunks([i \in DOMAIN o.keys |->
                                                chunks.items[2 * i - 1].s \o ": "
                                                \o chunks.items[2 * i].s], level + 1)
                              \o "\n" \o Spaces(Indent * level) \o "}")
      [] OTHER -> Str(Quote(py_str(o)))

json_dumps(obj) == json_encode(obj, 0)

----------------------------------------------------------------------------
(* format_response *)

\* mutant of format_response_try: "if not json_data" for the test of line 45
format_response_try_falsy(data, title) ==
    LET jd == convert_to_json_serializable(data)
    IN  IF IsRaise(jd) THEN jd
        ELSE IF jd.tag \in {"None", "NaN"}
                \/ (jd.tag \in {"list", "tuple"} /\ Len(jd.items) = 0)
                \/ (jd.tag = "dict" /\ Len(jd.keys) = 0)
                \/ (jd.tag \in {"str", "int", "bool"} /\ ~Truthy(jd))
        THEN Str(title \o ": No data available")
        ELSE LET text == json_dumps(jd)
             IN  IF IsRaise(text) THEN text
                 ELSE Str(title \o ":\n" \o text.s)

\* mutant of format_response_try: line 45 without its test for an empty list
format_response_try_none_only(data, title) ==
    LET jd == convert_to_json_serializable(data)
    IN  IF IsRaise(jd) THEN jd
        ELSE IF jd.tag = "None"
        THEN Str(title \o ": No data available")
        ELSE LET text == json_dumps(jd)
             IN  IF IsRaise(text) THEN text
                 ELSE Str(title \o ":\n" \o text.s)

\* lines 44-49, the body of the try
format_response_try(data, title) ==
    LET jd == convert_to_json_serializable(data)
    IN  IF IsRaise(jd) THEN jd
        ELSE IF jd.tag = "None" \/ (jd.tag = "list" /\ Len(jd.items) = 0)
        THEN Str(title \o ": No data available")
        ELSE LET text == json_dumps(jd)
             IN  IF IsRaise(text) THEN text
                 ELSE Str(title \o ":\n" \o text.s)

\* mutant of format_response: no except clause
format_response_uncaught(data, title) == format_response_try(data, title)

\* lines 41-51
format_response(data, title) ==
    LET r == format_response_try(data, title)
    IN  IF IsRaise(r)
        THEN Str(title \o ": Error formatting data - " \o r.msg)
        ELSE r

----------------------------------------------------------------------------
(* dates *)

\* the calendar date of a day number (days since 1970-01-01), as datetime
\* keeps it: proleptic Gregorian year, month, day
civil_from_days(z0) ==
    LET z == z0 + 719468
        era == z \div 146097
        doe == z - era * 146097
        yoe == (doe - doe \div 1460 + doe \div 36524 - doe \div 146096) \div 365
        doy == doe - (365 * yoe + yoe \div 4 - yoe \div 100)
        mp == (5 * doy + 2) \div 153
        d == doy - (153 * mp + 2) \div 5 + 1
        m == IF mp < 10 THEN mp + 3 ELSE mp - 9
        y == yoe + era * 400 + (IF m <= 2 THEN 1 ELSE 0)
    IN  [year |-> y, month |-> m, day |-> d]

Pad2(n) == IF n < 10 THEN "0" \o ToString(n) ELSE ToString(n)

\* datetime.strftime('%Y-%m-%d') of the date with this day number
strftime(day) ==
    LET c == civil_from_days(day)
    IN  Str(ToString(c.year) \o "-" \o Pad2(c.month) \o "-" \o Pad2(c.day))

\* timedelta(days=365)
DaysBack == 365

----------------------------------------------------------------------------
(* get_historical_prices *)

dict_setitem(d, k, v) ==
    IF k \in Range(d.keys)
    THEN Dict(d.keys, [i \in DOMAIN d.keys |-> IF d.keys[i] = k THEN v ELSE d.vals[i]])
    ELSE Dict(Append(d.keys, k), Append(d.vals, v))

HasKey(d, k) == Str(k) \in Range(d.keys)

Get(d, k) == d.vals[CHOOSE i \in DOMAIN d.keys : d.keys[i] = Str(k)]

Base(interval) ==
    Dict(<<Str("interval"), Str("adj_timezone"), Str("adj_ohlc")>>,
         <<interval, Bool(TRUE), Bool(FALSE)>>)

\* mutant of resolve_params: the dates are set after the if, not in its else
resolve_params_no_else(period, start_date, end_date, interval, t1, t2) ==
    LET p == IF Truthy(period) /\ ~(Truthy(start_date) \/ Truthy(end_date))
             THEN dict_setitem(Base(interval), Str("period"), period)
             ELSE Base(interval)
        e == IF ~Truthy(end_date) THEN strftime(t1) ELSE end_date
        s == IF ~Truthy(start_date) THEN strftime(t2 - DaysBack) ELSE start_date
    IN  dict_setitem(dict_setitem(p, Str("start"), s), Str("end"), e)

\* mutant of resolve_params: a period wins over the dates
resolve_params_period_wins(period, start_date, end_date, interval, t1, t2) ==
    IF Truthy(period)
    THEN dict_setitem(Base(interval), Str("period"), period)
    ELSE LET e == IF ~Truthy(end_date) THEN strftime(t1) ELSE end_date
             s == IF ~Truthy(start_date) THEN strftime(t2 - DaysBack)
                  ELSE start_date
         IN  dict_setitem(dict_setitem(Base(interval), Str("start"), s),
                          Str("end"), e)

\* mutant of resolve_params: only the dates that were defaulted are passed on
resolve_params_defaults_only(period, start_date, end_date, interval, t1, t2) ==
    IF Truthy(period) /\ ~(Truthy(start_date) \/ Truthy(end_date))
    THEN dict_setitem(Base(interval), Str("period"), period)
    ELSE LET p1 == IF ~Truthy(end_date)
                   THEN dict_setitem(Base(interval), Str("end"), strftime(t1))
                   ELSE Base(interval)
         IN  IF ~Truthy(start_date)
             THEN dict_setitem(p1, Str("start"), strftime(t2 - DaysBack))
             ELSE p1

\* mutant of resolve_params: the default start is a calendar year back,
\* the same day and month of the year before
resolve_params_year_back(period, start_date, end_date, interval, t1, t2) ==
    IF Truthy(period) /\ ~(Truthy(start_date) \/ Truthy(end_date))
    THEN dict_setitem(Base(interval), Str("period"), period)
    ELSE LET e == IF ~Truthy(end_date) THEN strftime(t1) ELSE end_date
             c == civil_from_days(t2)
             s == IF ~Truthy(start_date)
                  THEN Str(ToString(c.year - 1) \o "-" \o Pad2(c.month) \o "-"
                           \o Pad2(c.day))
                  ELSE start_date
         IN  dict_setitem(dict_setitem(Base(interval), Str("start"), s),
                          Str("end"), e)

\* mutant of resolve_params: the arguments are tested with "is not None"
resolve_params_is_none(period, start_date, end_date, interval, t1, t2) ==
    IF period /= None /\ ~(start_date /= None \/ end_date /= None)
    THEN dict_setitem(Base(interval), Str("period"), period)
    ELSE LET e == IF end_date = None THEN strftime(t1) ELSE end_date
             s == IF start_date = None THEN strftime(t2 - DaysBack)
                  ELSE start_date
         IN  dict_setitem(dict_setitem(Base(interval), Str("start"), s),
                          Str("end"), e)

\* lines 361-378: the request built from the arguments; t1 and t2 are what
\* the first and the second datetime.today() return if they are called
resolve_params(period, start_date, end_date, interval, t1, t2) ==
    LET base == Base(interval)
    IN  IF Truthy(period) /\ ~(Truthy(start_date) \/ Truthy(end_date))
        THEN dict_setitem(base, Str("period"), period)
        ELSE LET e == IF ~Truthy(end_date) THEN strftime(t1) ELSE end_date
                 s == IF ~Truthy(start_date) THEN strftime(t2 - DaysBack)
                      ELSE start_date
             IN  dict_setitem(dict_setitem(base, Str("start"), s), Str("end"), e)

\* the calls of datetime.today() that lines 372-375 make, in order
today_reads(period, start_date, end_date, t1, t2) ==
    IF Truthy(period) /\ ~(Truthy(start_date) \/ Truthy(end_date)) THEN <<>>
    ELSE (IF ~Truthy(end_date) THEN <<t1>> ELSE <<>>)
         \o (IF ~Truthy(start_date) THEN <<t2>> ELSE <<>>)

\* DataFrame.empty
df_empty(df) == Len(df.data) = 0 \/ Len(df.columns) = 0

\* data['date'] = data['date'].astype(str)
date_astype_str(df) ==
    IF Str("date") \notin Range(df.columns) THEN df
    ELSE [df EXCEPT !.data =
            [r \in DOMAIN df.data |->
               [c \in DOMAIN df.columns |->
                  IF df.columns[c] = Str("date")
                  THEN Str(py_str(df.data[r][c])) ELSE df.data[r][c]]]]

\* lines 383-394: the response made from what tickers.history returned
history_response(data, interval) ==
    IF data.tag = "DataFrame" /\ ~df_empty(data)
    THEN LET df == reset_index(data)
         IN  IF IsRaise(df) THEN df
             ELSE LET text == json_dumps(to_dict_records(date_astype_str(df)))
                  IN  IF IsRaise(text) THEN text
                      ELSE Str("Historical Price Data (" \o py_str(interval)
                               \o "):\n" \o text.s)
    ELSE Str("Historical Price Data: No data available")

----------------------------------------------------------------------------
(* get_company_profile *)

get_company_profile(asset_profile, summary_profile) ==
    LET a == convert_to_json_serializable(asset_profile)
        s == convert_to_json_serializable(summary_profile)
    IN  IF IsRaise(a) THEN a
        ELSE IF IsRaise(s) THEN s
        ELSE format_response(
                 Dict(<<Str("asset_profile"), Str("summary_profile")>>, <<a, s>>),
                 "Company Profile")

----------------------------------------------------------------------------
(* what the handlers are called with, and what yahooquery hands them *)

MaxRows == 2
MaxLen == 2
ClockStart == 20145
ClockDays == 4

Symbol(r) == Str("SYM" \o ToString(r))
Date(r) == Timestamp("2024-01-0" \o ToString(r))

Cells == {PyInt(1), NaN}

IndexShapes ==
    {[kind |-> "RangeIndex", names |-> <<None>>],
     [kind |-> "RangeIndex", names |-> <<Str("symbol")>>],
     [kind |-> "RangeIndex", names |-> <<Str("")>>],
     [kind |-> "Index", names |-> <<None>>],
     [kind |-> "Index", names |-> <<Str("symbol")>>],
     [kind |-> "MultiIndex", names |-> <<Str("symbol"), Str("date")>>],
     [kind |-> "MultiIndex", names |-> <<None, None>>],
     [kind |-> "MultiIndex", names |-> <<Str("symbol"), None>>]}

index_keys(kind, r) ==
    CASE kind = "RangeIndex" -> <<PyInt(r - 1)>>
      [] kind = "Index" -> <<Symbol(r)>>
      [] OTHER -> <<Symbol(r), Date(r)>>

ColumnSets ==
    {<<>>, <<Str("close")>>, <<Str("close"), Str("symbol")>>,
     <<Str("index"), Str("close")>>}

DataFrames ==
    UNION {UNION {UNION {
        {DataFrame(sh.kind, sh.names, [r \in 1..n |-> index_keys(sh.kind, r)],
                   cols, data) :
            data \in [1..n -> [1..Len(cols) -> Cells]]} :
        n \in 0..MaxRows} : cols \in ColumnSets} : sh \in IndexShapes}

SeriesSet ==
    UNION {UNION {
        {Series([r \in 1..n |-> IF multi THEN Tuple(index_keys("MultiIndex", r))
                                 ELSE Symbol(r)], values) :
            values \in [1..n -> Cells]} :
        n \in 0..MaxRows} : multi \in BOOLEAN}

Scalars ==
    {None, NaN, PyInt(1), PyInt(0), Str("AAPL"), Str(""), Bool(TRUE), Date(1),
     NdArray(<<PyInt(1), PyInt(2)>>)}

\* what a list, a tuple or a dict of the upstream holds
Elems ==
    {NaN, PyInt(1), NdArray(<<PyInt(1), PyInt(2)>>), List(<<>>), List(<<NaN>>),
     Dict(<<>>, <<>>),
     Series(<<Tuple(index_keys("MultiIndex", 1))>>, <<PyInt(1)>>),
     DataFrame("Index", <<Str("symbol")>>, <<index_keys("Index", 1)>>,
               <<Str("close")>>, <<<<NaN>>>>)}

SeqsOf(S, n) == UNION {[1..k -> S] : k \in 0..n}

Lists == UNION {{List(s), Tuple(s)} : s \in SeqsOf(Elems, MaxLen)}

Dicts == {Dict([i \in DOMAIN s |-> Symbol(i)], s) : s \in SeqsOf(Elems, MaxLen)}

RawResults == Scalars \cup DataFrames \cup SeriesSet \cup Lists \cup Dicts

\* two of the wrappers of lines 53-336, each with the title it passes
Wrappers ==
    {[name |-> "get_financial_data", title |-> "Financial Data"],
     [name |-> "get_price_data", title |-> "Price Data"]}

WrapperNames == {w.name : w \in Wrappers}

Periods == {None, Str(""), Str("1y")}
StartDates == {None, Str(""), Str("2020-01-01")}
EndDates == {None, Str(""), Str("2020-12-31")}
Intervals == {Str("1d"), Str("1wk")}

\* what tickers.history returns: a frame indexed by symbol and date, an empty
\* frame, or a dict of per-symbol error texts
HistoryResults ==
    {d \in DataFrames :
        d.kind = "MultiIndex" /\ Len(d.data) = 1 /\ Len(d.columns) = 1}
    \cup {DataFrame("MultiIndex", <<Str("symbol"), Str("date")>>,
                    <<index_keys("MultiIndex", 1)>>,
                    <<Str("close"), Str("symbol")>>, <<<<PyInt(1), NaN>>>>),
          DataFrame("RangeIndex", <<None>>, <<>>, <<>>, <<>>),
          Dict(<<Symbol(1)>>, <<Str("No data found")>>)}

----------------------------------------------------------------------------
(* the handlers *)

MaxCalls == 2
MaxMidnights == 1

\* the calls that can be in flight together
CallIds == 1..MaxCalls

\* a slot with no call in it
IdleCall ==
    [pc |-> "idle", tool |-> "none", args |-> None, json_data |-> None,
     end_date |-> None, params |-> None, reads |-> <<>>, result |-> None]

Init ==
    /\ tool = "none"
    /\ args = None
    /\ json_data = None
    /\ params = None
    /\ reads = <<>>
    /\ result = None
    /\ clock = ClockStart
    /\ calls = [c \in CallIds |-> IdleCall]

\* lines 53-64 and the like: data = tickers.<attribute>;
\* return format_response(data, title)
Wrapper ==
    \E w \in Wrappers, data \in RawResults :
        /\ tool = "none"
        /\ tool' = w.name
        /\ args' = [data |-> data, title |-> w.title]
        /\ json_data' = convert_to_json_serializable(data)
        /\ result' = format_response(data, w.title)
        /\ params' = None
        /\ reads' = <<>>
        /\ UNCHANGED clock
        /\ UNCHANGED calls

\* lines 339-394; midnight may pass between the two calls of datetime.today()
GetHistoricalPrices ==
    \E period \in Periods, start_date \in StartDates, end_date \in EndDates,
       interval \in Intervals, data \in HistoryResults, t2 \in {clock, clock + 1} :
        /\ tool = "none"
        /\ t2 <= ClockStart + ClockDays
        /\ tool' = "get_historical_prices"
        /\ args' = [period |-> period, start_date |-> start_date,
                    end_date |-> end_date, interval |-> interval, data |-> data]
        /\ params' = resolve_params(period, start_date, end_date, interval,
                                    clock, t2)
        /\ reads' = today_reads(period, start_date, end_date, clock, t2)
        /\ json_data' = None
        /\ result' = history_response(data, interval)
        /\ clock' = t2
        /\ UNCHANGED calls

\* lines 264-284
GetCompanyProfile ==
    \E asset_profile \in Elems, summary_profile \in Elems :
        /\ tool = "none"
        /\ tool' = "get_company_profile"
        /\ args' = [asset_profile |-> asset_profile,
                    summary_profile |-> summary_profile]
        /\ json_data' = None
        /\ result' = get_company_profile(asset_profile, summary_profile)
        /\ params' = None
        /\ reads' = <<>>
        /\ UNCHANGED clock
        /\ UNCHANGED calls

\* a day passes while the server waits
Tick ==
    /\ tool = "none"
    /\ clock < ClockStart + ClockDays
    /\ clock' = clock + 1
    /\ UNCHANGED <<tool, args, json_data, params, reads, result>>
    /\ UNCHANGED calls

\* the response is sent and the server waits for the next request: nothing
\* of the call is kept
Respond ==
    /\ tool /= "none"
    /\ tool' = "none"
    /\ args' = None
    /\ json_data' = None
    /\ params' = None
    /\ reads' = <<>>
    /\ result' = None
    /\ UNCHANGED clock
    /\ UNCHANGED calls

Next == Wrapper \/ GetHistoricalPrices \/ GetCompanyProfile \/ Respond \/ Tick

Spec == Init /\ [][Next]_vars

----------------------------------------------------------------------------
(* the range resolution of get_historical_prices *)

History == tool = "get_historical_prices"

\* an argument is provided when it is a non-empty string: None and "" are
\* both "not provided" (the handler tests the arguments by their truth value)
Given(x) == x /= None /\ x /= Str("")

\* C1: whenever a period is provided and neither start_date nor end_date is,
\* the request passed to tickers.history holds the given period and the given
\* interval, and no start and no end key.
C1_PeriodRequest ==
    (History /\ Given(args.period) /\ ~Given(args.start_date)
        /\ ~Given(args.end_date))
    => /\ HasKey(params, "period") /\ Get(params, "period") = args.period
       /\ HasKey(params, "interval") /\ Get(params, "interval") = args.interval
       /\ ~HasKey(params, "start")
       /\ ~HasKey(params, "end")

C1_Witness ==
    /\ History
    /\ args.period = Str("1y") /\ args.start_date = None /\ args.end_date = None
    /\ Get(params, "period") = Str("1y")

\* C2: whenever period is absent, or at least one of start_date / end_date is
\* given (even if period is given too), the request has the shape
\* {start, end, interval} and the period is dropped.
C2_DatesWin ==
    (History /\ (~Given(args.period) \/ Given(args.start_date)
                    \/ Given(args.end_date)))
    => /\ HasKey(params, "start")
       /\ HasKey(params, "end")
       /\ HasKey(params, "interval") /\ Get(params, "interval") = args.interval
       /\ ~HasKey(params, "period")

C2_Witness ==
    /\ History
    /\ args.period = Str("1y") /\ args.start_date = Str("2020-01-01")
    /\ args.end_date = None
    /\ Get(params, "start") = Str("2020-01-01")
    /\ ~HasKey(params, "period")

\* C3: for every combination of present and absent period, start_date and
\* end_date the request is a request (the resolution does not fail) of exactly
\* one of two shapes: a period and neither start nor end, or both start and
\* end and no period; interval is always present.
C3_OneShape ==
    History
    => /\ params.tag = "dict"
       /\ HasKey(params, "interval")
       /\ \/ /\ HasKey(params, "period")
             /\ ~HasKey(params, "start") /\ ~HasKey(params, "end")
          \/ /\ ~HasKey(params, "period")
             /\ HasKey(params, "start") /\ HasKey(params, "end")

C3_Witness ==
    /\ History
    /\ args.period = Str("1y") /\ args.start_date = None
    /\ args.end_date = Str("2020-12-31")
    /\ HasKey(params, "start") /\ HasKey(params, "end")
    /\ ~HasKey(params, "period")

\* C4: in the date-range shape, end is the supplied end_date verbatim when one
\* is supplied and otherwise the current date, and start is the supplied
\* start_date verbatim when one is supplied and otherwise the current date
\* minus 365 days, the current date being what datetime.today() returned when
\* the default was taken; with no period and no dates the request is
\* {start: today-365d, end: today, interval}.
C4_DateDefaults ==
    (History /\ HasKey(params, "start") /\ HasKey(params, "end"))
    => /\ Len(reads) = (IF Given(args.end_date) THEN 0 ELSE 1)
                       + (IF Given(args.start_date) THEN 0 ELSE 1)
       /\ \A i \in DOMAIN reads : reads[i] \in {clock - 1, clock}
       /\ Get(params, "end") =
            IF Given(args.end_date) THEN args.end_date
            ELSE strftime(reads[1])
       /\ Get(params, "start") =
            IF Given(args.start_date) THEN args.start_date
            ELSE strftime(reads[Len(reads)] - 365)

\* no period, no dates, on 2025-02-28: a year of 365 days back, over the leap
\* day of 2024, is 2024-02-29
C4_Witness ==
    /\ History
    /\ args.period = None /\ args.start_date = None /\ args.end_date = None
    /\ reads = <<20147, 20147>>
    /\ Get(params, "end") = Str("2025-02-28")
    /\ Get(params, "start") = Str("2024-02-29")
    /\ Get(params, "interval") = args.interval

----------------------------------------------------------------------------
(* format_response *)

Wrapped == tool \in WrapperNames

NoData(title) == Str(title \o ": No data available")

\* whether the normalization or the serialization of the call failed, and
\* with which exception
Failure ==
    IF IsRaise(json_data) THEN json_data
    ELSE IF json_data = None \/ json_data = List(<<>>) THEN None
    ELSE IF IsRaise(json_dumps(json_data)) THEN json_dumps(json_data)
    ELSE None

\* C5: format_response never propagates a failure: every call returns a
\* string, and when normalization or serialization fails with a message the
\* string is "<title>: Error formatting data - <message>".
C5_NeverRaises ==
    Wrapped
    => /\ result.tag = "str"
       /\ IsRaise(Failure)
            => result = Str(args.title \o ": Error formatting data - "
                            \o Failure.msg)

\* a series indexed by (symbol, date) normalizes to a dict with tuple keys,
\* which json.dumps refuses
C5_Witness ==
    /\ Wrapped
    /\ args.data.tag = "Series"
    /\ ~IsRaise(json_data)
    /\ result = Str(args.title \o ": Error formatting data - keys must be str, int, float, bool or None, not tuple")

\* the raw results the claim C6 calls empty
EmptySequence(data) == data.tag \in {"list", "tuple"} /\ Len(data.items) = 0
EmptyMapping(data) == data.tag = "dict" /\ Len(data.keys) = 0

\* C6 as claimed: for every empty raw result, namely a zero-length sequence,
\* an empty mapping, or NaN, format_response returns exactly
\* "<title>: No data available".
C6_Original ==
    (Wrapped /\ (EmptySequence(args.data) \/ EmptyMapping(args.data)
                    \/ args.data = NaN))
    => result = NoData(args.title)

\* C6 as amended: for a zero-length sequence and for NaN format_response
\* returns exactly "<title>: No data available"; for an empty mapping it
\* returns "<title>:" and, on the next line, "{}".
C6_EmptyRaw ==
    Wrapped
    => /\ (EmptySequence(args.data) \/ args.data = NaN)
            => result = NoData(args.title)
       /\ EmptyMapping(args.data) => result = Str(args.title \o ":\n{}")

C6_Witness ==
    /\ Wrapped
    /\ EmptyMapping(args.data)
    /\ json_data = Dict(<<>>, <<>>)
    /\ result = Str(args.title \o ":\n{}")

\* C7: format_response returns "<title>: No data available" if and only if
\* the normalized value is None or a list of length zero; for every other
\* normalized value that serializes without failure it returns the title, a
\* colon, a newline and the pretty-printed serialization of the value.
C7_NoDataIff ==
    Wrapped
    => /\ result = NoData(args.title)
            <=> (json_data = None \/ json_data = List(<<>>))
       /\ (~IsRaise(json_data) /\ json_data /= None /\ json_data /= List(<<>>)
             /\ ~IsRaise(json_dumps(json_data)))
            => result = Str(args.title \o ":\n" \o json_dumps(json_data).s)

\* a dict of one symbol whose value is a list with a missing number
C7_Witness ==
    /\ Wrapped
    /\ args.data = Dict(<<Str("SYM1")>>, <<List(<<NaN>>)>>)
    /\ result = Str(args.title \o ":\n{\n  \"SYM1\": [\n    null\n  ]\n}")

\* whether NaN occurs in a normalized value, at any depth
RECURSIVE ContainsNaN(_)
ContainsNaN(v) ==
    CASE v.tag = "NaN" -> TRUE
      [] v.tag \in {"list", "tuple"} ->
            \E i \in DOMAIN v.items : ContainsNaN(v.items[i])
      [] v.tag = "dict" -> \E i \in DOMAIN v.vals : ContainsNaN(v.vals[i])
      [] OTHER -> FALSE

\* C8: what convert_to_json_serializable returns never holds NaN at any
\* depth: every missing value of the raw input, top-level, inside a mapping
\* or a sequence, or in a cell of a table or a series, is None in it.
C8_NoNaN ==
    (Wrapped /\ ~IsRaise(json_data)) => ~ContainsNaN(json_data)

\* the frames whose index the claim C9 is about: a named index (a name that
\* is not empty) or one that is not the default positional index
Named(name) == name /= None /\ name /= Str("")
IdentifyingIndex(df) ==
    df.kind /= "RangeIndex" \/ \E i \in DOMAIN df.names : Named(df.names[i])

\* C9: for every table whose index is named or is not the default positional
\* index, every row of the normalized output has, for each index level, a key
\* that holds that row's index value: the name of the level when it has one,
\* and a key that is no column of the table when it has none.
C9_IndexKept ==
    (Wrapped /\ args.data.tag = "DataFrame" /\ IdentifyingIndex(args.data)
        /\ ~IsRaise(json_data))
    => /\ json_data.tag = "list"
       /\ Len(json_data.items) = Len(args.data.data)
       /\ \A r \in DOMAIN json_data.items : \A i \in DOMAIN args.data.names :
            \E k \in DOMAIN json_data.items[r].keys :
                /\ json_data.items[r].vals[k] = args.data.index[r][i]
                /\ IF args.data.names[i] /= None
                   THEN json_data.items[r].keys[k] = args.data.names[i]
                   ELSE json_data.items[r].keys[k] \notin Range(args.data.columns)

\* two rows indexed by (symbol, date): each row names its symbol and date
C9_Witness ==
    /\ Wrapped
    /\ args.data.tag = "DataFrame" /\ args.data.kind = "MultiIndex"
    /\ args.data.names = <<Str("symbol"), Str("date")>>
    /\ args.data.columns = <<Str("close")>>
    /\ ~IsRaise(json_data) /\ Len(json_data.items) = 2
    /\ json_data.items[2] =
         Dict(<<Str("symbol"), Str("date"), Str("close")>>,
              <<Str("SYM2"), Date(2), PyInt(1)>>)

----------------------------------------------------------------------------
(* convert_to_json_serializable, once more *)

\* C11: normalization is idempotent: convert_to_json_serializable of what
\* convert_to_json_serializable returned is that value again.
C11_Idempotent ==
    (Wrapped /\ ~IsRaise(json_data))
    => convert_to_json_serializable(json_data) = json_data

\* C13: normalizing a dict gives a dict of the same keys in the same order,
\* each value the normalization of the value it had; normalizing a list or a
\* tuple gives a list of the same length whose i-th item is the normalization
\* of the i-th item, and an empty one stays empty.
C13_Elementwise ==
    (Wrapped /\ ~IsRaise(json_data))
    => /\ args.data.tag = "dict"
            => /\ json_data.tag = "dict"
               /\ json_data.keys = args.data.keys
               /\ Len(json_data.vals) = Len(args.data.vals)
               /\ \A i \in DOMAIN args.data.vals :
                    json_data.vals[i]
                        = convert_to_json_serializable(args.data.vals[i])
       /\ args.data.tag \in {"list", "tuple"}
            => /\ json_data.tag = "list"
               /\ Len(json_data.items) = Len(args.data.items)
               /\ \A i \in DOMAIN args.data.items :
                    json_data.items[i]
                        = convert_to_json_serializable(args.data.items[i])

\* a dict of two symbols, a missing number and a frame: the keys stay in
\* their order, the number becomes None and the frame its rows
C13_Witness ==
    /\ Wrapped
    /\ args.data.tag = "dict"
    /\ args.data.keys = <<Str("SYM1"), Str("SYM2")>>
    /\ args.data.vals[1] = NaN
    /\ args.data.vals[2].tag = "DataFrame"
    /\ json_data =
         Dict(<<Str("SYM1"), Str("SYM2")>>,
              <<None, List(<<Dict(<<Str("symbol"), Str("close")>>,
                                  <<Str("SYM1"), NaN>>)>>)>>)

----------------------------------------------------------------------------
(* get_company_profile *)

\* C14: get_company_profile always returns a response string: a failure while
\* normalizing either sub-section is not propagated out of the operation.
C14_ProfileReturnsString ==
    tool = "get_company_profile" => result.tag = "str"

----------------------------------------------------------------------------
(* the defaults of get_historical_prices *)

\* C15: when both dates are defaulted, the start passed on is exactly 365
\* days before the end passed on, also when the clock moves on between the
\* two calls of datetime.today(); reads[1] is the day the end was made of.
C15_WindowOf365Days ==
    (History /\ HasKey(params, "start") /\ ~Given(args.start_date)
        /\ ~Given(args.end_date))
    => /\ Get(params, "end") = strftime(reads[1])
       /\ Get(params, "start") = strftime(reads[1] - 365)

\* an argument that is the empty string, taken as absent
Absent(x) == IF x = Str("") THEN None ELSE x

\* C16: an empty-string period, start_date or end_date is treated exactly
\* like an absent one: the request and the reads of the clock are those of
\* the call with None in its place, an empty period never gives a period
\* request, and an empty date is replaced by its default, never passed on.
C16_EmptyIsAbsent ==
    History
    => /\ \E t1 \in {clock - 1, clock} :
            /\ params = resolve_params(Absent(args.period),
                                       Absent(args.start_date),
                                       Absent(args.end_date),
                                       args.interval, t1, clock)
            /\ reads = today_reads(Absent(args.period), Absent(args.start_date),
                                   Absent(args.end_date), t1, clock)
       /\ args.period = Str("") => ~HasKey(params, "period")
       /\ \A k \in {"period", "start", "end"} :
            HasKey(params, k) => Get(params, k) /= Str("")
       /\ (args.start_date = Str("") /\ HasKey(params, "start"))
            => Get(params, "start") = strftime(reads[Len(reads)] - 365)
       /\ (args.end_date = Str("") /\ HasKey(params, "end"))
            => Get(params, "end") = strftime(reads[1])

\* an empty period with an empty start and a given end is a date request
\* with the default start
C16_Witness ==
    /\ History
    /\ args.period = Str("") /\ args.start_date = Str("")
    /\ args.end_date = Str("2020-12-31")
    /\ reads = <<20147>>
    /\ Get(params, "start") = Str("2024-02-29")
    /\ Get(params, "end") = Str("2020-12-31")
    /\ ~HasKey(params, "period")

----------------------------------------------------------------------------
(* interleaved calls: every handler taken statement by statement, each call *)
(* with its own locals, the clock the one thing the calls share            *)

\* what the interleaved wrappers are handed
ConcData ==
    {List(<<NaN>>), NdArray(<<PyInt(1), PyInt(2)>>),
     Series(<<Tuple(index_keys("MultiIndex", 1))>>, <<PyInt(1)>>)}

\* the arguments of the interleaved calls of get_historical_prices
ConcHistoryArgs ==
    {[period |-> p, start_date |-> s, end_date |-> None,
      interval |-> Str("1d"),
      data |-> Dict(<<Symbol(1)>>, <<Str("No data found")>>)] :
        p \in {None, Str("1y")}, s \in {None, Str("2020-01-01")}}

\* lines 45-51, from the json_data that line 44 left (or the exception it
\* raised)
format_response_render(jd, title) ==
    IF IsRaise(jd) THEN Str(title \o ": Error formatting data - " \o jd.msg)
    ELSE IF jd.tag = "None" \/ (jd.tag = "list" /\ Len(jd.items) = 0)
    THEN Str(title \o ": No data available")
    ELSE LET text == json_dumps(jd)
         IN  IF IsRaise(text)
             THEN Str(title \o ": Error formatting data - " \o text.msg)
             ELSE Str(title \o ":\n" \o text.s)

\* mutant of call_json_data: json_data is a global of the module, which
\* another call in flight has overwritten
global_json_data(c) ==
    LET others == {d \in CallIds : d /= c /\ calls[d].pc \in {"line45", "done"}
                                    /\ calls[d].tool \in WrapperNames}
    IN  IF others = {} THEN calls[c].json_data
        ELSE calls[CHOOSE d \in others : TRUE].json_data

\* line 45: json_data is a local of the call
call_json_data(c) == calls[c].json_data

Quiet == UNCHANGED <<tool, args, json_data, params, reads, result>>

\* a wrapper is called, and has its data from yahooquery (lines 53-63)
CallWrapper(c) ==
    \E w \in Wrappers, data \in ConcData :
        /\ calls[c].pc = "idle"
        /\ calls' = [calls EXCEPT ![c] =
                        [IdleCall EXCEPT !.pc = "line44", !.tool = w.name,
                                         !.args = [data |-> data,
                                                   title |-> w.title]]]
        /\ Quiet /\ UNCHANGED clock

\* line 44
Normalize(c) ==
    /\ calls[c].pc = "line44"
    /\ calls' = [calls EXCEPT ![c].pc = "line45",
                              ![c].json_data =
                                  convert_to_json_serializable(calls[c].args.data)]
    /\ Quiet /\ UNCHANGED clock

\* lines 45-51
Render(c) ==
    /\ calls[c].pc = "line45"
    /\ calls' = [calls EXCEPT ![c].pc = "done",
                              ![c].result =
                                  format_response_render(call_json_data(c),
                                                         calls[c].args.title)]
    /\ Quiet /\ UNCHANGED clock

\* get_historical_prices is called (lines 339-358)
CallHistory(c) ==
    \E a \in ConcHistoryArgs :
        /\ calls[c].pc = "idle"
        /\ calls' = [calls EXCEPT ![c] =
                        [IdleCall EXCEPT !.pc = "line361",
                                         !.tool = "get_historical_prices",
                                         !.args = a]]
        /\ Quiet /\ UNCHANGED clock

\* lines 361-373: the period request, or the end of the date request
ResolveEnd(c) ==
    LET k == calls[c]
    IN  /\ k.pc = "line361"
        /\ IF Truthy(k.args.period)
              /\ ~(Truthy(k.args.start_date) \/ Truthy(k.args.end_date))
           THEN calls' = [calls EXCEPT
                            ![c].pc = "line380",
                            ![c].params = dict_setitem(Base(k.args.interval),
                                                       Str("period"),
                                                       k.args.period)]
           ELSE IF ~Truthy(k.args.end_date)
           THEN calls' = [calls EXCEPT ![c].pc = "line374",
                                       ![c].params = Base(k.args.interval),
                                       ![c].end_date = strftime(clock),
                                       ![c].reads = <<clock>>]
           ELSE calls' = [calls EXCEPT ![c].pc = "line374",
                                       ![c].params = Base(k.args.interval),
                                       ![c].end_date = k.args.end_date]
        /\ Quiet /\ UNCHANGED clock

\* lines 374-378: the start of the date request
ResolveStart(c) ==
    LET k == calls[c]
        s == IF ~Truthy(k.args.start_date) THEN strftime(clock - DaysBack)
             ELSE k.args.start_date
    IN  /\ k.pc = "line374"
        /\ calls' = [calls EXCEPT
                        ![c].pc = "line380",
                        ![c].reads = IF ~Truthy(k.args.start_date)
                                     THEN Append(k.reads, clock) ELSE k.reads,
                        ![c].params =
                            dict_setitem(dict_setitem(k.params, Str("start"), s),
                                         Str("end"), k.end_date)]
        /\ Quiet /\ UNCHANGED clock

\* lines 380-394
FormatHistory(c) ==
    /\ calls[c].pc = "line380"
    /\ calls' = [calls EXCEPT ![c].pc = "done",
                              ![c].result =
                                  history_response(calls[c].args.data,
                                                   calls[c].args.interval)]
    /\ Quiet /\ UNCHANGED clock

\* the call returns; nothing of it is kept
Return(c) ==
    /\ calls[c].pc = "done"
    /\ calls' = [calls EXCEPT ![c] = IdleCall]
    /\ Quiet /\ UNCHANGED clock

\* midnight passes, whatever the calls are at
Midnight ==
    /\ clock < ClockStart + MaxMidnights
    /\ clock' = clock + 1
    /\ Quiet /\ UNCHANGED calls

NextConcurrent ==
    \/ \E c \in CallIds :
          \/ CallWrapper(c) \/ Normalize(c) \/ Render(c)
          \/ CallHistory(c) \/ ResolveEnd(c) \/ ResolveStart(c)
          \/ FormatHistory(c) \/ Return(c)
    \/ Midnight

SpecConcurrent == Init /\ [][NextConcurrent]_vars

\* C12: the core keeps no state across calls: however the calls in flight
\* are interleaved, what each has normalized, resolved and returned is what
\* the same call gives alone with the same arguments and the same readings
\* of the clock.
C12_AsIfAlone ==
    \A c \in CallIds :
        LET k == calls[c]
        IN  /\ k.tool \in WrapperNames
                => /\ k.pc \in {"line45", "done"}
                        => k.json_data
                             = convert_to_json_serializable(k.args.data)
                   /\ k.pc = "done"
                        => k.result = format_response(k.args.data, k.args.title)
            /\ k.tool = "get_historical_prices"
                => /\ k.pc \in {"line380", "done"}
                        => \E t1 \in ClockStart..clock : \E t2 \in t1..clock :
                              /\ k.params = resolve_params(
                                     k.args.period, k.args.start_date,
                                     k.args.end_date, k.args.interval, t1, t2)
                              /\ k.reads = today_reads(
                                     k.args.period, k.args.start_date,
                                     k.args.end_date, t1, t2)
                   /\ k.pc = "done"
                        => k.result = history_response(k.args.data,
                                                       k.args.interval)

\* two wrappers in flight with different data, the first returned its own
\* while the second had already normalized its own
C12_Witness ==
    /\ calls[1].tool \in WrapperNames /\ calls[2].tool \in WrapperNames
    /\ calls[1].pc = "done" /\ calls[2].pc \in {"line45", "done"}
    /\ calls[1].args.data = List(<<NaN>>)
    /\ calls[2].args.data = NdArray(<<PyInt(1), PyInt(2)>>)
    /\ calls[1].result = Str(calls[1].args.title \o ":\n[\n  null\n]")

====
